---- MODULE Spec2Model ----
(***************************************************************************)
(* Model of static/script.js: the skill catalog loader, the dropdown       *)
(* filter, the selection state, the optimization request and the build     *)
(* result renderer.                                                        *)
(*                                                                         *)
(* A JavaScript string is a sequence of UTF-16 code units (numbers), so    *)
(* that template literals, toLowerCase, includes and the default sort      *)
(* comparison are computed the way the engine computes them.               *)
(* A JavaScript object used as a map is a sequence of [key, value] pairs   *)
(* in insertion order, the order for-in, Object.keys and Object.entries    *)
(* walk it in (keys here are skill names, never array indices).            *)
(***************************************************************************)
EXTENDS Integers, Sequences, FiniteSets, TLC

VARIABLES
  allSkillsData,      \* line 10: the expanded catalog
  selectedSkills,     \* line 11: the selection, name -> level
  searchValue,        \* skillSearchInput.value
  dropdownItems,      \* the option divs of skillDropdown, each closing over its entry
  dropdownNote,       \* TRUE when skillDropdown holds the 'No skills found' div
  dropdownShown,      \* skillDropdown has class 'show'
  selectedSkillsList, \* the li items of selectedSkillsList
  loadingShown,       \* loadingIndicator.style.display = 'block'
  buttonDisabled,     \* optimizeButton.disabled
  errorText,          \* errorMessageDiv.textContent
  errorShown,         \* errorMessageDiv.style.display = 'block'
  resultsHTML,        \* resultsDiv.innerHTML, as a sequence of rendered reports
  catalogFetch,       \* the promise chain of fetch('/api/skills')
  inflight,           \* the promise chains of fetch('/api/optimize') not yet settled
  maxSince,           \* history: per name, the largest level passed to addSkill since its last removal
  lastCall,           \* history: the latest addSkill / removeSkill call
  lastSettle,         \* history: how the latest optimization request settled
  lastLoad,           \* history: the skill list the catalog callback received
  renderInput         \* the build the renderer specification applies displayResults to

vars == <<allSkillsData, selectedSkills, searchValue, dropdownItems, dropdownNote,
          dropdownShown, selectedSkillsList, loadingShown, buttonDisabled, errorText,
          errorShown, resultsHTML, catalogFetch, inflight, maxSince, lastCall,
          lastSettle, lastLoad, renderInput>>

selVars == <<selectedSkills, selectedSkillsList, maxSince, lastCall>>
searchVars == <<searchValue, dropdownItems, dropdownNote>>
catalogVars == <<allSkillsData, catalogFetch, lastLoad>>
requestVars == <<inflight, lastSettle, renderInput>>
viewVars == <<loadingShown, buttonDisabled, errorText, errorShown, resultsHTML>>

----------------------------------------------------------------------------
(* Bounds of the model. *)

\* the largest max_level a served skill carries
MaxLevel == 2
\* the longest served skill list
MaxSkills == 2
\* cap on the optimization requests in flight at once (the program keeps it at 1)
MaxInflight == 2

----------------------------------------------------------------------------
(* Strings. *)

\* "Attack"
Attack == <<65, 116, 116, 97, 99, 107>>
\* "Attack Boost"
AttackBoost == <<65, 116, 116, 97, 99, 107, 32, 66, 111, 111, 115, 116>>
\* "Optimization failed: "
OptimizationFailed == <<79, 112, 116, 105, 109, 105, 122, 97, 116, 105, 111, 110, 32,
                        102, 97, 105, 108, 101, 100, 58, 32>>
\* "HTTP error! status: "
HttpErrorStatus == <<72, 84, 84, 80, 32, 101, 114, 114, 111, 114, 33, 32, 115, 116, 97,
                     116, 117, 115, 58, 32>>
\* "Please select at least one skill."
PleaseSelect == <<80, 108, 101, 97, 115, 101, 32, 115, 101, 108, 101, 99, 116, 32, 97,
                  116, 32, 108, 101, 97, 115, 116, 32, 111, 110, 101, 32, 115, 107, 105,
                  108, 108, 46>>
\* "Error loading skills list. Please try refreshing the page."
ErrorLoadingSkills == <<69, 114, 114, 111, 114, 32, 108, 111, 97, 100, 105, 110, 103, 32,
                        115, 107, 105, 108, 108, 115, 32, 108, 105, 115, 116, 46, 32, 80,
                        108, 101, 97, 115, 101, 32, 116, 114, 121, 32, 114, 101, 102, 114,
                        101, 115, 104, 105, 110, 103, 32, 116, 104, 101, 32, 112, 97, 103,
                        101, 46>>

\* String(n) for an integer n, as a template literal converts it
RECURSIVE NumberToString(_)
NumberToString(n) ==
  IF n < 0 THEN <<45>> \o NumberToString(0 - n)
  ELSE IF n < 10 THEN <<48 + n>>
  ELSE NumberToString(n \div 10) \o <<48 + (n % 10)>>

\* one code unit of String.prototype.toLowerCase: A-Z map to a-z
LowerUnit(c) == IF c >= 65 /\ c <= 90 THEN c + 32 ELSE c

\* String.prototype.toLowerCase
toLowerCase(s) == [i \in 1..Len(s) |-> LowerUnit(s[i])]

\* String.prototype.includes: t occurs in s as a contiguous run
includes(s, t) ==
  \E off \in 0..(Len(s) - Len(t)) : \A i \in 1..Len(t) : s[off + i] = t[i]

\* `${name} ${level}`: the label of a catalog entry and of a selected skill
Label(name, level) == name \o <<32>> \o NumberToString(level)

----------------------------------------------------------------------------
(* Objects used as maps: selectedSkills, and the mappings of a build. *)

Keys(obj) == {obj[i].key : i \in 1..Len(obj)}

Has(obj, k) == \E i \in 1..Len(obj) : obj[i].key = k

\* obj[k] for a key the object holds
Get(obj, k) == obj[CHOOSE i \in 1..Len(obj) : obj[i].key = k].value

\* obj[k] = v: an existing key keeps its place, a new key goes last
Put(obj, k, v) ==
  IF Has(obj, k)
  THEN [i \in 1..Len(obj) |-> IF obj[i].key = k THEN [key |-> k, value |-> v] ELSE obj[i]]
  ELSE Append(obj, [key |-> k, value |-> v])

\* delete obj[k]
Delete(obj, k) == SelectSeq(obj, LAMBDA e : e.key # k)

----------------------------------------------------------------------------
(* Selection state, lines 75-102. *)

\* addSkill that assigns whatever level it is given
addSkill_Overwrite(sel, name, level) == Put(sel, name, level)

\* lines 75-79: the assignment part of addSkill
addSkill(sel, name, level) ==
  IF ~Has(sel, name) \/ Get(sel, name) = 0 \/ level > Get(sel, name)
  THEN Put(sel, name, level)
  ELSE sel

\* removeSkill that deletes nothing
removeSkill_Keep(sel, name) == sel

\* line 84: the deletion part of removeSkill
removeSkill(sel, name) == Delete(sel, name)

\* a list whose X buttons all remove the name of the last item
renderSelectedSkills_LastName(sel) ==
  [i \in 1..Len(sel) |->
     [text |-> Label(sel[i].key, sel[i].value), removes |-> sel[Len(sel)].key]]

\* lines 88-102: one li per own key, its text and the name its X button removes
renderSelectedSkills(sel) ==
  [i \in 1..Len(sel) |->
     [text |-> Label(sel[i].key, sel[i].value), removes |-> sel[i].key]]

----------------------------------------------------------------------------
(* Skill catalog loader, lines 14-35. *)

\* an element of the served JSON array: { name, max_level }
Skill(name, max_level) == [kind |-> "skill", name |-> name, max_level |-> max_level]

\* a null element of the served JSON array
NullElement == [kind |-> "null", name |-> <<>>, max_level |-> 0]

\* the for loop with i < max_level as its condition
RECURSIVE LevelEntries_Exclusive(_, _)
LevelEntries_Exclusive(skill, i) ==
  IF i < skill.max_level
  THEN <<[name |-> skill.name, level |-> i, maxLevel |-> skill.max_level]>>
         \o LevelEntries_Exclusive(skill, i + 1)
  ELSE <<>>

\* lines 24-26: the for loop of one skill, from counter i on
RECURSIVE LevelEntries(_, _)
LevelEntries(skill, i) ==
  IF i <= skill.max_level
  THEN <<[name |-> skill.name, level |-> i, maxLevel |-> skill.max_level]>>
         \o LevelEntries(skill, i + 1)
  ELSE <<>>

\* lines 23-27: skills.forEach from element k on, acc being what was pushed so far;
\* reading max_level of a null element throws and leaves what was pushed
RECURSIVE forEachSkill(_, _, _)
forEachSkill(skills, k, acc) ==
  IF k > Len(skills) THEN [data |-> acc, threw |-> FALSE]
  ELSE IF skills[k].kind = "null" THEN [data |-> acc, threw |-> TRUE]
  ELSE forEachSkill(skills, k + 1, acc \o LevelEntries(skills[k], 1))

\* lines 21-27: the success callback on a received array
expandSkills(skills) == forEachSkill(skills, 1, <<>>)

\* the names a served skill carries
SkillNames == {Attack, AttackBoost}

ServedElements ==
  {Skill(n, m) : n \in SkillNames, m \in 0..MaxLevel} \cup {NullElement}

RECURSIVE ListsUpTo(_, _)
ListsUpTo(S, n) ==
  IF n = 0 THEN {<<>>}
  ELSE LET shorter == ListsUpTo(S, n - 1)
       IN shorter \cup {Append(l, e) : l \in {x \in shorter : Len(x) = n - 1}, e \in S}

\* every skill list of the bounded catalog specification
ServedSkillLists == ListsUpTo(ServedElements, MaxSkills)

\* the skill lists served in a full session
SessionSkillLists ==
  { <<Skill(Attack, MaxLevel), Skill(AttackBoost, 1)>>,
    <<Skill(Attack, 1), NullElement, Skill(AttackBoost, 1)>> }

----------------------------------------------------------------------------
(* Dropdown filter, lines 38-61. *)

\* the filter with only the label lowercased
filteredSkills_RawFilter(catalog, filter) ==
  SelectSeq(catalog,
            LAMBDA skill : includes(toLowerCase(Label(skill.name, skill.level)), filter))

\* lines 40-42: allSkillsData.filter(...)
filteredSkills(catalog, filter) ==
  SelectSeq(catalog,
            LAMBDA skill : includes(toLowerCase(Label(skill.name, skill.level)),
                                    toLowerCase(filter)))

\* the texts typed into the search input:
\* "", "boost", "ATT", "k 2", "K B", "xyz", "1", "tT"
FilterTexts ==
  { <<>>, <<98, 111, 111, 115, 116>>, <<65, 84, 84>>, <<107, 32, 50>>,
    <<75, 32, 66>>, <<120, 121, 122>>, <<49>>, <<116, 84>> }

\* the texts typed in a full session: "", "k 2"
SessionTexts == { <<>>, <<107, 32, 50>> }

----------------------------------------------------------------------------
(* Build result renderer, lines 147-204.  The report is kept as a record of *)
(* its sections, each section holding the strings the template literals     *)
(* produce.                                                                 *)

\* Array.prototype.join(', ')
RECURSIVE JoinComma(_)
JoinComma(parts) ==
  IF Len(parts) = 0 THEN <<>>
  ELSE IF Len(parts) = 1 THEN parts[1]
  ELSE parts[1] \o <<44, 32>> \o JoinComma(Tail(parts))

\* "None"
NoneText == <<78, 111, 110, 101>>

\* lines 155-157: `${s.name} +${s.level}` joined, or 'None'
armorSkillsStr(skills) ==
  IF Len(skills) > 0
  THEN JoinComma([i \in 1..Len(skills) |->
                    skills[i].name \o <<32, 43>> \o NumberToString(skills[i].level)])
  ELSE NoneText

\* lines 168-170: `${s.name} +${s.points}` joined, or 'None'
talismanSkillsStr(skills) ==
  IF Len(skills) > 0
  THEN JoinComma([i \in 1..Len(skills) |->
                    skills[i].name \o <<32, 43>> \o NumberToString(skills[i].points)])
  ELSE NoneText

\* a slot count that reads level_1 whatever the key
slotCount_FirstKey(slots, key) ==
  IF Has(slots, "level_1") /\ Get(slots, "level_1") # 0 THEN Get(slots, "level_1") ELSE 0

\* line 160: slots[key] || 0
slotCount(slots, key) ==
  IF Has(slots, key) /\ Get(slots, key) # 0 THEN Get(slots, key) ELSE 0

\* lines 159-160: piece.slots || {}, then the L1..L4 string
slotsStr(piece) ==
  LET slots == IF "slots" \in DOMAIN piece THEN piece.slots ELSE <<>>
  IN <<76, 49, 58>> \o NumberToString(slotCount(slots, "level_1"))
     \o <<32, 76, 50, 58>> \o NumberToString(slotCount(slots, "level_2"))
     \o <<32, 76, 51, 58>> \o NumberToString(slotCount(slots, "level_3"))
     \o <<32, 76, 52, 58>> \o NumberToString(slotCount(slots, "level_4"))

\* line 161: one armor li
armorItem(piece) ==
  [type |-> piece.type, piece_name |-> piece.piece_name, set_name |-> piece.set_name,
   skills |-> armorSkillsStr(piece.skills), slots |-> slotsStr(piece)]

\* a < b for strings: the comparison of UTF-16 code units the default sort uses
StringLess(a, b) ==
  \E k \in 0..Len(a) :
     /\ k <= Len(b)
     /\ \A i \in 1..k : a[i] = b[i]
     /\ \/ k = Len(a) /\ k < Len(b)
        \/ k < Len(a) /\ k < Len(b) /\ a[k + 1] < b[k + 1]

\* String([skill, level]): what Array.prototype.sort() compares when given no comparator
EntryString(e) == e.key \o <<44>> \o NumberToString(e.value)

\* line 190: the place of entry e in an already sorted run (the sort is stable)
InsertSorted(sorted, e) ==
  LET after == {i \in 1..Len(sorted) : StringLess(EntryString(e), EntryString(sorted[i]))}
      at == IF after = {} THEN Len(sorted) + 1
            ELSE CHOOSE i \in after : \A j \in after : i <= j
  IN SubSeq(sorted, 1, at - 1) \o <<e>> \o SubSeq(sorted, at, Len(sorted))

\* line 190: Object.entries(finalSkills).sort()
RECURSIVE SortEntries(_)
SortEntries(entries) ==
  IF Len(entries) = 0 THEN <<>>
  ELSE InsertSorted(SortEntries(SubSeq(entries, 1, Len(entries) - 1)),
                    entries[Len(entries)])

\* the li of a skill that counts as met only above its target
skillItem_Strict(skill, level, targetSkills) ==
  LET target == IF Has(targetSkills, skill) THEN Get(targetSkills, skill) ELSE 0
      met_str == IF level > target THEN <<77, 69, 84>> ELSE <<66, 69, 76, 79, 87>>
      status == IF target > 0
                THEN <<40, 84, 97, 114, 103, 101, 116, 58, 32>> \o NumberToString(target) \o <<32, 45, 32>> \o met_str \o <<41>>
                ELSE <<>>
  IN [skill |-> skill,
      text |-> skill \o <<58, 32>> \o NumberToString(level) \o <<32>> \o status]

\* lines 192-195: the li of one shown skill
skillItem(skill, level, targetSkills) ==
  LET target == IF Has(targetSkills, skill) THEN Get(targetSkills, skill) ELSE 0
      met_str == IF level >= target THEN <<77, 69, 84>> ELSE <<66, 69, 76, 79, 87>>
      status == IF target > 0
                THEN <<40, 84, 97, 114, 103, 101, 116, 58, 32>> \o NumberToString(target) \o <<32, 45, 32>> \o met_str \o <<41>>
                ELSE <<>>
  IN [skill |-> skill,
      text |-> skill \o <<58, 32>> \o NumberToString(level) \o <<32>> \o status]

\* lines 188-197: the Resulting Skills list
resultingSkills(build) ==
  LET finalSkills == IF "skills" \in DOMAIN build THEN build.skills ELSE <<>>
      targetSkills == IF "target_skills" \in DOMAIN build THEN build.target_skills ELSE <<>>
      sorted == SortEntries(finalSkills)
      shown == SelectSeq(sorted, LAMBDA e : e.value > 0)
  IN [i \in 1..Len(shown) |-> skillItem(shown[i].key, shown[i].value, targetSkills)]

\* the property reads that raise a TypeError: any read on null, and forEach /
\* length / map of undefined
displayThrows(build) ==
  \/ "armor" \notin DOMAIN build
  \/ \E i \in 1..Len(build.armor) : "skills" \notin DOMAIN build.armor[i]
  \/ "talisman" \in DOMAIN build /\ "skills" \notin DOMAIN build.talisman
  \/ "decorations" \notin DOMAIN build

\* lines 150-200: htmlContent
reportOf(build) ==
  [defense |-> build.defense,
   armor |-> [i \in 1..Len(build.armor) |-> armorItem(build.armor[i])],
   talisman |-> IF "talisman" \in DOMAIN build
                THEN <<[name |-> build.talisman.name,
                        skills |-> talismanSkillsStr(build.talisman.skills)]>>
                ELSE <<>>,
   decorations |-> [i \in 1..Len(build.decorations) |->
                      [count |-> build.decorations[i].count,
                       name |-> build.decorations[i].deco.name,
                       slot_level |-> build.decorations[i].deco.slot_level]],
   skills |-> resultingSkills(build),
   remaining |-> build.remaining_weighted_slots]

\* a renderer that fills the area as it goes, so that a throw leaves a partial
\* report in it
displayResults_NoClear(build) ==
  IF displayThrows(build)
  THEN [threw |-> TRUE, html |-> <<[partial |-> TRUE]>>]
  ELSE [threw |-> FALSE, html |-> <<reportOf(build)>>]

\* lines 147-204: resultsDiv.innerHTML after the call, and whether it threw;
\* line 148 empties the area before anything can throw, line 203 fills it last
displayResults(build) ==
  IF displayThrows(build)
  THEN [threw |-> TRUE, html |-> <<>>]
  ELSE [threw |-> FALSE, html |-> <<reportOf(build)>>]

----------------------------------------------------------------------------
(* Optimization request, lines 105-144. *)

\* the emptiness test that never holds
isEmptySelection_Never(sel) == FALSE

\* line 106: Object.keys(selectedSkills).length === 0
isEmptySelection(sel) == Len(sel) = 0

\* a request body that leaves the selection out
requestBody_Empty(sel) == [skills |-> <<>>]

\* line 123: JSON.stringify({ skills: selectedSkills }), a copy taken at the call
requestBody(sel) == [skills |-> sel]

\* a submitting click that leaves the submit control enabled
submitView_NoDisable ==
  [loadingShown |-> TRUE, errorShown |-> FALSE, resultsHTML |-> <<>>,
   buttonDisabled |-> FALSE]

\* lines 113-116: what a submitting click sets before the request is issued
submitView ==
  [loadingShown |-> TRUE, errorShown |-> FALSE, resultsHTML |-> <<>>,
   buttonDisabled |-> TRUE]

\* a finally step that does not enable the submit control
finallyView_StaysDisabled == [loadingShown |-> FALSE, buttonDisabled |-> TRUE]

\* a finally step that does not hide the loading indicator
finallyView_StaysLoading == [loadingShown |-> TRUE, buttonDisabled |-> FALSE]

\* lines 140-143: the finally step
finallyView == [loadingShown |-> FALSE, buttonDisabled |-> FALSE]

\* line 126: response.ok
responseOk(status) == status >= 200 /\ status <= 299

\* the JSON value null
JsonNull == [isNull |-> TRUE]

IsNull(v) == "isNull" \in DOMAIN v

\* message of the TypeError of a read on null: "Cannot read properties of null"
CannotReadNull == <<67, 97, 110, 110, 111, 116, 32, 114, 101, 97, 100, 32, 112, 114, 111, 112, 101, 114, 116, 105, 101, 115, 32, 111, 102, 32, 110, 117, 108, 108>>

\* the failure message that ignores the body
failureMessage_Generic(err, status) == HttpErrorStatus \o NumberToString(status)

\* line 128: the message of the error the callback throws, which is
\* err.error || `HTTP error! status: ${response.status}`, or that of the
\* TypeError of reading err.error when err is null
failureMessage(err, status) ==
  IF IsNull(err) THEN CannotReadNull
  ELSE IF "error" \in DOMAIN err /\ Len(err.error) > 0
  THEN err.error
  ELSE HttpErrorStatus \o NumberToString(status)

\* line 137: `Optimization failed: ${error.message}`
failedText(message) == OptimizationFailed \o message

\* the status codes the optimizer answers with
Statuses == {200, 400, 500}

\* "infeasible target"
InfeasibleTarget == <<105, 110, 102, 101, 97, 115, 105, 98, 108, 101, 32, 116, 97, 114, 103, 101, 116>>
\* message of the TypeError a failed fetch rejects with: "Failed to fetch"
FailedToFetch == <<70, 97, 105, 108, 101, 100, 32, 116, 111, 32, 102, 101, 116, 99, 104>>
\* message of the SyntaxError response.json() rejects with: "Unexpected token"
UnexpectedToken == <<85, 110, 101, 120, 112, 101, 99, 116, 101, 100, 32, 116, 111, 107, 101, 110>>
\* message of the TypeError of a read on undefined: "Cannot read properties of undefined"
CannotRead == <<67, 97, 110, 110, 111, 116, 32, 114, 101, 97, 100, 32, 112, 114, 111, 112, 101, 114, 116, 105, 101, 115, 32, 111, 102, 32, 117, 110, 100, 101, 102, 105, 110, 101, 100>>

\* "Agitator"
Agitator == <<65, 103, 105, 116, 97, 116, 111, 114>>

\* a well-formed build around the two mappings and the slots of its one piece
MakeBuild(skills, targets, slots) ==
  [defense |-> 120,
   armor |-> <<[type |-> "head", piece_name |-> "Helm", set_name |-> "Alloy",
                skills |-> <<[name |-> Attack, level |-> 1]>>, slots |-> slots]>>,
   talisman |-> [name |-> "Charm", skills |-> <<[name |-> AttackBoost, points |-> 2]>>],
   decorations |-> <<[count |-> 2, deco |-> [name |-> "Jewel", slot_level |-> 1]]>>,
   skills |-> skills,
   target_skills |-> targets,
   remaining_weighted_slots |-> 3]

\* the JSON bodies the optimizer answers with in a full session: a build,
\* { error: "infeasible target" }, { error: "" }, {} and null
SessionBodies ==
  << MakeBuild(<<[key |-> AttackBoost, value |-> 1], [key |-> Attack, value |-> 2]>>,
               <<[key |-> Attack, value |-> 3]>>,
               <<[key |-> "level_1", value |-> 2]>>),
     [error |-> InfeasibleTarget],
     [error |-> <<>>],
     [none |-> 0],
     JsonNull >>

----------------------------------------------------------------------------
(* The page as loaded. *)

\* the state of the elements of lines 2-8 in the served markup
PageMarkup ==
  [searchValue |-> <<>>, dropdownItems |-> <<>>, dropdownNote |-> FALSE,
   dropdownShown |-> FALSE, selectedSkillsList |-> <<>>, loadingShown |-> FALSE,
   buttonDisabled |-> FALSE, errorText |-> <<>>, errorShown |-> FALSE,
   resultsHTML |-> <<>>]

\* history before the first call.  In a call record, level is the level passed
\* to addSkill or the level removeSkill deleted, and dropped is the level the
\* directly preceding removeSkill of the same name deleted (0 when there was none)
NoCall == [op |-> "none", name |-> <<>>, level |-> 0, dropped |-> 0]

Init ==
  /\ allSkillsData = <<>>
  /\ selectedSkills = <<>>
  /\ searchValue = PageMarkup.searchValue
  /\ dropdownItems = PageMarkup.dropdownItems
  /\ dropdownNote = PageMarkup.dropdownNote
  /\ dropdownShown = PageMarkup.dropdownShown
  /\ selectedSkillsList = PageMarkup.selectedSkillsList
  /\ loadingShown = PageMarkup.loadingShown
  /\ buttonDisabled = PageMarkup.buttonDisabled
  /\ errorText = PageMarkup.errorText
  /\ errorShown = PageMarkup.errorShown
  /\ resultsHTML = PageMarkup.resultsHTML
  /\ catalogFetch = "pending"
  /\ inflight = <<>>
  /\ maxSince = [n \in SkillNames |-> 0]
  /\ lastCall = NoCall
  /\ lastSettle = "none"
  /\ lastLoad = <<>>
  /\ renderInput = <<>>

----------------------------------------------------------------------------
(* Catalog events, lines 14-35. *)

\* lines 31-35: the catch callback
CatalogCatch ==
  /\ errorText' = ErrorLoadingSkills
  /\ errorShown' = TRUE
  /\ UNCHANGED <<loadingShown, buttonDisabled, resultsHTML>>

\* fetch('/api/skills') rejects
CatalogNetworkError ==
  /\ catalogFetch = "pending"
  /\ catalogFetch' = "done"
  /\ CatalogCatch
  /\ UNCHANGED <<allSkillsData, lastLoad, selVars, searchVars, dropdownShown, requestVars>>

\* lines 15-20: the response arrives
CatalogResponse(status) ==
  /\ catalogFetch = "pending"
  /\ IF responseOk(status)
     THEN /\ catalogFetch' = "reading"
          /\ UNCHANGED viewVars
     ELSE /\ catalogFetch' = "done"
          /\ CatalogCatch
  /\ UNCHANGED <<allSkillsData, lastLoad, selVars, searchVars, dropdownShown, requestVars>>

\* line 19: response.json() rejects
CatalogBodyUnparsable ==
  /\ catalogFetch = "reading"
  /\ catalogFetch' = "done"
  /\ CatalogCatch
  /\ UNCHANGED <<allSkillsData, lastLoad, selVars, searchVars, dropdownShown, requestVars>>

\* lines 21-30: the array arrives; a throw inside the callback goes to the catch
CatalogLoaded(skills) ==
  /\ catalogFetch = "reading"
  /\ catalogFetch' = "done"
  /\ lastLoad' = <<skills>>
  /\ LET r == expandSkills(skills)
     IN /\ allSkillsData' = r.data
        /\ IF r.threw THEN CatalogCatch ELSE UNCHANGED viewVars
  /\ UNCHANGED <<selVars, searchVars, dropdownShown, requestVars>>

----------------------------------------------------------------------------
(* Search and selection events, lines 38-102. *)

\* an input event that fills the dropdown and leaves its visibility alone
InputSearch_NoShow(text) ==
  /\ text # searchValue
  /\ searchValue' = text
  /\ dropdownItems' = filteredSkills(allSkillsData, text)
  /\ dropdownNote' = (Len(filteredSkills(allSkillsData, text)) = 0)
  /\ UNCHANGED <<dropdownShown, selVars, catalogVars, requestVars, viewVars>>

\* lines 63-65 and 38-61: the input event, fired when the value of the search
\* input changes to text
InputSearch(text) ==
  /\ text # searchValue
  /\ searchValue' = text
  /\ dropdownItems' = filteredSkills(allSkillsData, text)
  /\ dropdownNote' = (Len(filteredSkills(allSkillsData, text)) = 0)
  /\ dropdownShown' = TRUE
  /\ UNCHANGED <<selVars, catalogVars, requestVars, viewVars>>

\* lines 52-56: a click on option i of the shown dropdown; the document handler
\* of lines 68-72 sees a target inside the dropdown
PickEntry(i) ==
  /\ dropdownShown
  /\ i \in 1..Len(dropdownItems)
  /\ LET skill == dropdownItems[i]
     IN /\ selectedSkills' = addSkill(selectedSkills, skill.name, skill.level)
        /\ maxSince' = [maxSince EXCEPT ![skill.name] =
                          IF skill.level > @ THEN skill.level ELSE @]
        /\ lastCall' = [op |-> "add", name |-> skill.name, level |-> skill.level,
                        dropped |-> IF lastCall.op = "remove" /\ lastCall.name = skill.name
                                    THEN lastCall.level ELSE 0]
  /\ selectedSkillsList' = renderSelectedSkills(selectedSkills')
  /\ searchValue' = <<>>
  /\ dropdownShown' = FALSE
  /\ UNCHANGED <<dropdownItems, dropdownNote, catalogVars, requestVars, viewVars>>

\* line 97: a click on the X button of item i; the document handler of
\* lines 68-72 sees a target outside the input and the dropdown
ClickRemove(i) ==
  /\ i \in 1..Len(selectedSkillsList)
  /\ LET name == selectedSkillsList[i].removes
     IN /\ selectedSkills' = removeSkill(selectedSkills, name)
        /\ maxSince' = [maxSince EXCEPT ![name] = 0]
        /\ lastCall' = [op |-> "remove", name |-> name,
                        level |-> Get(selectedSkills, name), dropped |-> 0]
  /\ selectedSkillsList' = renderSelectedSkills(selectedSkills')
  /\ dropdownShown' = FALSE
  /\ UNCHANGED <<searchVars, catalogVars, requestVars, viewVars>>

\* lines 68-72: a click elsewhere on the page
ClickOutside ==
  /\ dropdownShown' = FALSE
  /\ UNCHANGED <<selVars, searchVars, catalogVars, requestVars, viewVars>>

----------------------------------------------------------------------------
(* Submission events, lines 105-144. *)

\* inflight without request i
Settled(i) == SubSeq(inflight, 1, i - 1) \o SubSeq(inflight, i + 1, Len(inflight))

\* lines 135-143: the catch callback, then the finally step
CatchThenFinally(message) ==
  /\ errorText' = failedText(message)
  /\ errorShown' = TRUE
  /\ loadingShown' = finallyView.loadingShown
  /\ buttonDisabled' = finallyView.buttonDisabled

\* lines 105-124: a click on the submit control, which a disabled control does not
\* dispatch; the document handler of lines 68-72 sees a target outside the
\* input and the dropdown
ClickOptimize ==
  /\ ~buttonDisabled
  /\ Len(inflight) < MaxInflight
  /\ IF isEmptySelection(selectedSkills)
     THEN /\ errorText' = PleaseSelect
          /\ errorShown' = TRUE
          /\ resultsHTML' = <<>>
          /\ UNCHANGED <<loadingShown, buttonDisabled, inflight>>
     ELSE /\ loadingShown' = submitView.loadingShown
          /\ errorShown' = submitView.errorShown
          /\ resultsHTML' = submitView.resultsHTML
          /\ buttonDisabled' = submitView.buttonDisabled
          /\ inflight' = Append(inflight,
                                [body |-> requestBody(selectedSkills),
                                 phase |-> "sent", status |-> 0])
          /\ UNCHANGED errorText
  /\ dropdownShown' = FALSE
  /\ UNCHANGED <<selVars, searchVars, catalogVars, lastSettle, renderInput>>

\* fetch('/api/optimize') of request i rejects
OptimizeNetworkError(i) ==
  /\ i \in 1..Len(inflight)
  /\ inflight[i].phase = "sent"
  /\ inflight' = Settled(i)
  /\ CatchThenFinally(FailedToFetch)
  /\ lastSettle' = "network"
  /\ UNCHANGED <<resultsHTML, renderInput, selVars, searchVars, dropdownShown, catalogVars>>

\* lines 125-131: the response of request i arrives and its body is being read
OptimizeResponse(i, status) ==
  /\ i \in 1..Len(inflight)
  /\ inflight[i].phase = "sent"
  /\ inflight' = [inflight EXCEPT ![i].phase = "reading", ![i].status = status]
  /\ UNCHANGED <<lastSettle, renderInput, viewVars, selVars, searchVars, dropdownShown,
                 catalogVars>>

\* lines 128, 130: response.json() of request i rejects
OptimizeBodyUnparsable(i) ==
  /\ i \in 1..Len(inflight)
  /\ inflight[i].phase = "reading"
  /\ inflight' = Settled(i)
  /\ CatchThenFinally(UnexpectedToken)
  /\ lastSettle' = "bad_body"
  /\ UNCHANGED <<resultsHTML, renderInput, selVars, searchVars, dropdownShown, catalogVars>>

\* lines 125-143: the body of request i is parsed as SessionBodies[k]
OptimizeBody(i, k) ==
  /\ i \in 1..Len(inflight)
  /\ inflight[i].phase = "reading"
  /\ inflight' = Settled(i)
  /\ LET body == SessionBodies[k]
         status == inflight[i].status
     IN IF responseOk(status)
        THEN /\ resultsHTML' = displayResults(body).html
             /\ IF displayResults(body).threw
                THEN /\ CatchThenFinally(IF IsNull(body) THEN CannotReadNull
                                           ELSE CannotRead)
                     /\ lastSettle' = "render_exception"
                ELSE /\ loadingShown' = finallyView.loadingShown
                     /\ buttonDisabled' = finallyView.buttonDisabled
                     /\ lastSettle' = "rendered"
                     /\ UNCHANGED <<errorText, errorShown>>
        ELSE /\ CatchThenFinally(failureMessage(body, status))
             /\ lastSettle' = IF IsNull(body) THEN "callback_exception"
                              ELSE IF "error" \in DOMAIN body /\ Len(body.error) > 0
                              THEN "server_message"
                              ELSE "http_status"
             /\ UNCHANGED resultsHTML
  /\ UNCHANGED <<selVars, searchVars, dropdownShown, catalogVars, renderInput>>

----------------------------------------------------------------------------
(* The session. *)

Next ==
  \/ CatalogNetworkError
  \/ \E status \in Statuses : CatalogResponse(status)
  \/ CatalogBodyUnparsable
  \/ \E skills \in SessionSkillLists : CatalogLoaded(skills)
  \/ \E text \in SessionTexts : InputSearch(text)
  \/ \E i \in 1..Len(dropdownItems) : PickEntry(i)
  \/ \E i \in 1..Len(selectedSkillsList) : ClickRemove(i)
  \/ ClickOutside
  \/ ClickOptimize
  \/ \E i \in 1..MaxInflight : OptimizeNetworkError(i)
  \/ \E i \in 1..MaxInflight, status \in Statuses : OptimizeResponse(i, status)
  \/ \E i \in 1..MaxInflight : OptimizeBodyUnparsable(i)
  \/ \E i \in 1..MaxInflight, k \in 1..Len(SessionBodies) : OptimizeBody(i, k)

Spec == Init /\ [][Next]_vars

\* what the network guarantees: a request that was sent is answered or fails,
\* and a body that is being read is parsed or fails
Arrive ==
  \/ \E i \in 1..MaxInflight : OptimizeNetworkError(i)
  \/ \E i \in 1..MaxInflight, status \in Statuses : OptimizeResponse(i, status)

Finish ==
  \/ \E i \in 1..MaxInflight : OptimizeBodyUnparsable(i)
  \/ \E i \in 1..MaxInflight, k \in 1..Len(SessionBodies) : OptimizeBody(i, k)

\* the session when every optimization request eventually settles
LiveSpec == Spec /\ WF_vars(Arrive) /\ WF_vars(Finish)

----------------------------------------------------------------------------
(* The catalog and the filter on their own: every bounded skill list, every *)
(* filter text.                                                             *)

NextSearch ==
  \/ \E status \in Statuses : CatalogResponse(status)
  \/ \E skills \in ServedSkillLists : CatalogLoaded(skills)
  \/ \E text \in FilterTexts : InputSearch(text)

SpecSearch == Init /\ [][NextSearch]_vars

----------------------------------------------------------------------------
(* The renderer on its own: every bounded build.                            *)

\* the largest achieved level of a rendered build
MaxAchieved == 2

\* every object with keys among K and values among V, in every insertion order
RECURSIVE ObjectsOver(_, _)
ObjectsOver(K, V) ==
  {<<>>} \cup UNION { { <<[key |-> k, value |-> v]>> \o o :
                          o \in ObjectsOver(K \ {k}, V), v \in V } : k \in K }

\* the largest slot count of a rendered piece
MaxSlots == 1

\* the skill names of the rendered builds
RenderSkillNames == {Attack, AttackBoost, Agitator}

\* the slot keys line 160 reads
SlotKeys == <<"level_1", "level_2", "level_3", "level_4">>

\* every slots object holding some of the keys, each with a count in 0..MaxSlots
RECURSIVE SlotsOver(_)
SlotsOver(keys) ==
  IF Len(keys) = 0 THEN {<<>>}
  ELSE LET rest == SlotsOver(Tail(keys))
       IN rest \cup { <<[key |-> Head(keys), value |-> v]>> \o o :
                        o \in rest, v \in 0..MaxSlots }

\* the build whose pieces carry no slots field
WithoutSlots(build) ==
  [build EXCEPT !.armor =
     [i \in 1..Len(build.armor) |->
        [f \in DOMAIN build.armor[i] \ {"slots"} |-> build.armor[i][f]]]]

\* builds varying the achieved and target levels, builds varying the slots of
\* the piece, and a build whose piece has no slots object
RenderBuilds ==
  { MakeBuild(skills, targets, <<[key |-> "level_1", value |-> 2]>>) :
      skills \in ObjectsOver(RenderSkillNames, 0..MaxAchieved),
      targets \in ObjectsOver({Attack}, 0..(MaxAchieved + 1)) }
  \cup { MakeBuild(<<[key |-> Attack, value |-> 1]>>, <<>>, slots) :
           slots \in SlotsOver(SlotKeys) }
  \cup { WithoutSlots(MakeBuild(<<[key |-> Attack, value |-> 1]>>, <<>>, <<>>)) }

InitRender ==
  /\ allSkillsData = <<>>
  /\ selectedSkills = <<>>
  /\ searchValue = PageMarkup.searchValue
  /\ dropdownItems = PageMarkup.dropdownItems
  /\ dropdownNote = PageMarkup.dropdownNote
  /\ dropdownShown = PageMarkup.dropdownShown
  /\ selectedSkillsList = PageMarkup.selectedSkillsList
  /\ loadingShown = PageMarkup.loadingShown
  /\ buttonDisabled = PageMarkup.buttonDisabled
  /\ errorText = PageMarkup.errorText
  /\ errorShown = PageMarkup.errorShown
  /\ resultsHTML = PageMarkup.resultsHTML
  /\ catalogFetch = "pending"
  /\ inflight = <<>>
  /\ maxSince = [n \in SkillNames |-> 0]
  /\ lastCall = NoCall
  /\ lastSettle = "none"
  /\ lastLoad = <<>>
  /\ renderInput \in {<<b>> : b \in RenderBuilds}

\* lines 147-204: displayResults applied to the build
Render ==
  /\ lastSettle = "none"
  /\ resultsHTML' = displayResults(renderInput[1]).html
  /\ lastSettle' = IF displayResults(renderInput[1]).threw THEN "render_exception"
                   ELSE "rendered"
  /\ UNCHANGED <<selVars, searchVars, dropdownShown, catalogVars, inflight, renderInput,
                 loadingShown, buttonDisabled, errorText, errorShown>>

NextRender == Render

SpecRender == InitRender /\ [][NextRender]_vars

----------------------------------------------------------------------------
(* Selection state: claims. *)

\* the level stored for a name, 0 when the name is absent
StoredLevel(sel, n) == IF Has(sel, n) THEN Get(sel, n) ELSE 0

\* C1: after every addSkill / removeSkill call the level stored for a name is
\* the largest level passed to addSkill for it since its last removal, a name
\* not added since its last removal is absent, and no name is stored twice
C1_StoredLevelIsMaxSinceRemoval ==
  /\ Keys(selectedSkills) \subseteq SkillNames
  /\ \A n \in SkillNames :
       /\ Cardinality({i \in 1..Len(selectedSkills) : selectedSkills[i].key = n}) <= 1
       /\ Has(selectedSkills, n) <=> maxSince[n] > 0
       /\ StoredLevel(selectedSkills, n) = maxSince[n]

\* C1 (case reached): addSkill was just called with a level below the stored one
C1_LowerAddWitness ==
  /\ lastCall.op = "add"
  /\ lastCall.dropped = 0
  /\ Has(selectedSkills, lastCall.name)
  /\ Get(selectedSkills, lastCall.name) > lastCall.level

\* C2: removeSkill(name) directly followed by addSkill(name, level) stores
\* exactly level for name, whatever was stored before the removal, and neither
\* call changes the entry of any other name
C2_RemoveThenAddStoresLevel ==
  /\ [](lastCall.op = "add" /\ lastCall.dropped > 0
          => StoredLevel(selectedSkills, lastCall.name) = lastCall.level)
  /\ [][lastCall' # lastCall
          => /\ lastCall'.op = "remove" => ~Has(selectedSkills', lastCall'.name)
             /\ \A n \in SkillNames \ {lastCall'.name} :
                  StoredLevel(selectedSkills', n) = StoredLevel(selectedSkills, n)]_vars

\* C2 (case reached): a name was removed at a higher level and directly added
\* again at a lower one, while another name is selected
C2_ReAddLowerWitness ==
  /\ lastCall.op = "add"
  /\ lastCall.dropped > lastCall.level
  /\ Len(selectedSkills) = 2

----------------------------------------------------------------------------
(* Submission: claims. *)

\* C3: a click on the submit control while the selection is empty issues no
\* request, shows the 'Please select at least one skill.' error, and leaves the
\* submit control enabled and the loading indicator hidden
C3_EmptySubmitIssuesNothing ==
  [][(ClickOptimize /\ Len(selectedSkills) = 0)
       => /\ inflight' = inflight
          /\ errorShown'
          /\ errorText' = PleaseSelect
          /\ ~buttonDisabled'
          /\ ~loadingShown']_vars

\* C3 (case reached): the error of an empty submission is on display
C3_EmptySubmitWitness ==
  /\ Len(selectedSkills) = 0
  /\ errorShown
  /\ errorText = PleaseSelect
  /\ inflight = <<>>
  /\ ~buttonDisabled
  /\ ~loadingShown

\* C4: at most one optimization request is outstanding, and while one is
\* outstanding the submit control is disabled
C4_OneRequestAtATime ==
  /\ Len(inflight) <= 1
  /\ Len(inflight) = 1 => buttonDisabled

\* C4 (case reached): a request is outstanding and the selection has been
\* changed since it was sent
C4_OutstandingWitness ==
  /\ Len(inflight) = 1
  /\ buttonDisabled
  /\ inflight[1].body.skills # selectedSkills

\* C5: every settlement of an optimization request, by any exit path, leaves
\* the submit control enabled, and when every request eventually settles a
\* disabled submit control is eventually enabled again
C5_ReenabledOnSettle ==
  /\ [][Len(inflight') < Len(inflight) => ~buttonDisabled']_vars
  /\ (buttonDisabled ~> ~buttonDisabled)

\* C5 (case reached): a request settled through an exception raised while
\* rendering, and the submit control is enabled
C5_RenderExceptionWitness ==
  /\ lastSettle = "render_exception"
  /\ inflight = <<>>
  /\ ~buttonDisabled

\* C6: the loading indicator is visible exactly while an optimization request
\* is outstanding, and never while the submit control is enabled
C6_LoadingIffOutstanding ==
  /\ loadingShown <=> Len(inflight) > 0
  /\ loadingShown => buttonDisabled

\* C6 (case reached): the indicator is visible while the body of the response
\* is being read
C6_LoadingWitness ==
  /\ loadingShown
  /\ Len(inflight) = 1
  /\ inflight[1].phase = "reading"

\* the message the claim C7 expects for a failure body and status
C7_Expected(body, status) ==
  IF "error" \in DOMAIN body THEN body.error
  ELSE HttpErrorStatus \o NumberToString(status)

\* the failure bodies C7 speaks of: an object with a non-empty error string,
\* or an object with no error field
C7_Covered(body) ==
  /\ ~IsNull(body)
  /\ "error" \in DOMAIN body => Len(body.error) > 0

\* C7 (as claimed): on a failure status the surfaced message is exactly the
\* error string of the body, or the generic HTTP-status message when the body
\* has no error field
C7_SurfacedVerbatim ==
  [][\A i \in 1..Len(inflight), k \in 1..Len(SessionBodies) :
       (OptimizeBody(i, k) /\ ~responseOk(inflight[i].status) /\ C7_Covered(SessionBodies[k]))
         => /\ errorShown'
            /\ errorText' = C7_Expected(SessionBodies[k], inflight[i].status)]_vars

\* C7 (amended): on a failure status the surfaced message is
\* "Optimization failed: " followed by the error string of the body verbatim,
\* or by the generic HTTP-status message when the body is an object with no
\* error field
C7_SurfacedAfterPrefix ==
  [][\A i \in 1..Len(inflight), k \in 1..Len(SessionBodies) :
       (OptimizeBody(i, k) /\ ~responseOk(inflight[i].status) /\ C7_Covered(SessionBodies[k]))
         => /\ errorShown'
            /\ errorText' = OptimizationFailed
                              \o C7_Expected(SessionBodies[k], inflight[i].status)]_vars

\* C7 (case reached): the server's "infeasible target" is on display, after the
\* prefix
C7_ServerMessageWitness ==
  /\ lastSettle = "server_message"
  /\ errorShown
  /\ errorText = OptimizationFailed \o InfeasibleTarget

----------------------------------------------------------------------------
(* Catalog and filter: claims. *)

\* the number of entries the skills before element k account for
RECURSIVE EntriesBefore(_, _)
EntriesBefore(skills, k) ==
  IF k <= 1 THEN 0
  ELSE EntriesBefore(skills, k - 1)
         + (IF skills[k - 1].max_level > 0 THEN skills[k - 1].max_level ELSE 0)

\* C8: after a successful load the catalog holds, skill after skill in received
\* order, one entry per level 1..max_level in ascending order, each with the
\* skill's name and max level; its length is the sum of the max levels
C8_CatalogIsExpansion ==
  (/\ catalogFetch = "done"
   /\ lastLoad # <<>>
   /\ \A k \in 1..Len(lastLoad[1]) : lastLoad[1][k].kind = "skill")
    => LET skills == lastLoad[1]
       IN /\ Len(allSkillsData) = EntriesBefore(skills, Len(skills) + 1)
          /\ \A k \in 1..Len(skills) : \A l \in 1..skills[k].max_level :
               allSkillsData[EntriesBefore(skills, k) + l]
                 = [name |-> skills[k].name, level |-> l,
                    maxLevel |-> skills[k].max_level]

\* C8 (case reached): a list with a max_level 0 skill before a max_level 2 skill
\* was loaded
C8_LoadedWitness ==
  /\ catalogFetch = "done"
  /\ lastLoad = <<<<Skill(AttackBoost, 0), Skill(Attack, 2)>>>>
  /\ Len(allSkillsData) = 2

\* two code units that are equal up to the case of a letter A-Z / a-z
SameIgnoringCase(a, b) ==
  \/ a = b
  \/ a >= 65 /\ a <= 90 /\ b = a + 32
  \/ b >= 65 /\ b <= 90 /\ a = b + 32

\* the label of the entry contains the text, case-insensitively
LabelContains(entry, text) ==
  LET label == entry.name \o <<32>> \o NumberToString(entry.level)
  IN \E off \in 0..(Len(label) - Len(text)) :
       \A i \in 1..Len(text) : SameIgnoringCase(label[off + i], text[i])

\* C9: the filter result is the subsequence of the catalog, in catalog order,
\* of the entries whose label "<name> <level>" contains the text
\* case-insensitively; the empty text keeps every entry, and an empty result is
\* rendered as the 'No skills found' note
C9_FilterIsMatchingSubsequence ==
  [][\A text \in FilterTexts :
       InputSearch(text)
         => /\ dropdownItems' = SelectSeq(allSkillsData,
                                          LAMBDA e : LabelContains(e, text))
            /\ text = <<>> => dropdownItems' = allSkillsData
            /\ dropdownNote' <=> dropdownItems' = <<>>
            /\ dropdownShown']_vars

\* C9 (case reached): "K B" was typed and kept some entries of the catalog,
\* not all
C9_MixedCaseWitness ==
  /\ searchValue = <<75, 32, 66>>
  /\ dropdownShown
  /\ Len(dropdownItems) >= 1
  /\ Len(dropdownItems) < Len(allSkillsData)

----------------------------------------------------------------------------
(* Renderer: claims. *)

\* C10: the Resulting Skills section lists the shown skills in lexicographic
\* order of skill name alone, also when one name is a proper prefix of another
C10_SkillsSortedByName ==
  \A r \in 1..Len(resultsHTML) :
    \A i, j \in 1..Len(resultsHTML[r].skills) :
      i < j => StringLess(resultsHTML[r].skills[i].skill, resultsHTML[r].skills[j].skill)

----------------------------------------------------------------------------
(* Renderer: shown skills, annotations and slots. *)

\* the level a mapping holds for a name, 0 when the name is absent
LevelIn(object, n) == IF Has(object, n) THEN Get(object, n) ELSE 0

\* C11: in a rendered report a skill is listed, once, iff its achieved level is
\* above 0; a listed skill with target t (0 when it has none) carries the
\* "(Target: ...)" annotation iff t > 0, and the annotation reads MET iff the
\* achieved level is at least t and BELOW otherwise.
C11_ShownAndAnnotated ==
  lastSettle = "rendered" =>
    LET build == renderInput[1]
        items == resultsHTML[1].skills
    IN /\ \A n \in RenderSkillNames :
            (\E i \in 1..Len(items) : items[i].skill = n) <=> LevelIn(build.skills, n) > 0
       /\ \A i, j \in 1..Len(items) : items[i].skill = items[j].skill => i = j
       /\ \A i \in 1..Len(items) :
            LET a == LevelIn(build.skills, items[i].skill)
                t == LevelIn(build.target_skills, items[i].skill)
                text == items[i].text
            IN /\ includes(text, items[i].skill \o <<58, 32>> \o NumberToString(a))
               /\ includes(text, <<40, 84, 97, 114, 103, 101, 116, 58, 32>>) <=> t > 0
               /\ includes(text, <<32, 45, 32, 77, 69, 84, 41>>) <=> (t > 0 /\ a >= t)
               /\ includes(text, <<32, 45, 32, 66, 69, 76, 79, 87, 41>>) <=> (t > 0 /\ a < t)

\* a rendered build with Attack achieved exactly at its target, one skill at
\* level 0 and one without a target
C11_MetAtTargetWitness ==
  /\ lastSettle = "rendered"
  /\ LevelIn(renderInput[1].skills, Attack) = 2
  /\ LevelIn(renderInput[1].target_skills, Attack) = 2
  /\ Has(renderInput[1].skills, Agitator)
  /\ LevelIn(renderInput[1].skills, Agitator) = 0
  /\ LevelIn(renderInput[1].skills, AttackBoost) = 1
  /\ Len(resultsHTML[1].skills) = 2

\* the count the report shows for a slot key of a piece
ExpectedSlot(piece, key) ==
  IF "slots" \in DOMAIN piece /\ Has(piece.slots, key) THEN Get(piece.slots, key) ELSE 0

\* C12: for every armor piece of a rendered report, each of L1..L4 shows the
\* value of level_1..level_4 when the key is present and 0 when the key, or the
\* whole slots object, is missing.
C12_SlotsDefaultToZero ==
  lastSettle = "rendered" =>
    \A i \in 1..Len(renderInput[1].armor) :
       LET piece == renderInput[1].armor[i]
       IN resultsHTML[1].armor[i].slots =
            <<76, 49, 58>> \o NumberToString(ExpectedSlot(piece, "level_1"))
            \o <<32, 76, 50, 58>> \o NumberToString(ExpectedSlot(piece, "level_2"))
            \o <<32, 76, 51, 58>> \o NumberToString(ExpectedSlot(piece, "level_3"))
            \o <<32, 76, 52, 58>> \o NumberToString(ExpectedSlot(piece, "level_4"))

\* a rendered piece whose slots object holds level_2 and level_4 only
C12_MissingKeysWitness ==
  /\ lastSettle = "rendered"
  /\ "slots" \in DOMAIN renderInput[1].armor[1]
  /\ Keys(renderInput[1].armor[1].slots) = {"level_2", "level_4"}
  /\ Get(renderInput[1].armor[1].slots, "level_2") = 1
  /\ resultsHTML[1].armor[1].slots = <<76, 49, 58, 48, 32, 76, 50, 58, 49, 32, 76, 51, 58, 48, 32, 76, 52, 58, 48>>

\* a rendered piece that has no slots object
C12_NoSlotsObjectWitness ==
  /\ lastSettle = "rendered"
  /\ "slots" \notin DOMAIN renderInput[1].armor[1]
  /\ resultsHTML[1].armor[1].slots = <<76, 49, 58, 48, 32, 76, 50, 58, 48, 32, 76, 51, 58, 48, 32, 76, 52, 58, 48>>

----------------------------------------------------------------------------
(* Catalog load failure and error display: claims. *)

\* the catalog load ended in the catch callback: the request was rejected or
\* answered with a failure status, the body did not parse, or the success
\* callback threw on an element of the array
LoadFailed ==
  /\ catalogFetch = "done"
  /\ \/ lastLoad = <<>>
     \/ \E k \in 1..Len(lastLoad[1]) : lastLoad[1][k].kind = "null"

\* C13: once the catalog load has failed (network error, failure status, or a
\* failure while processing the response) the catalog is empty, in that state
\* and in every later one, and no catalog request is outstanding.
C13_FailedLoadLeavesCatalogEmpty ==
  LoadFailed => (allSkillsData = <<>> /\ catalogFetch = "done")

\* the part of C13 the code keeps: a failed load surfaces the catalog-load
\* error and no catalog request follows the one the page issues when it loads
C13_FailedLoadSurfacedOnce ==
  [][ /\ (LoadFailed' /\ ~LoadFailed) =>
           (errorShown' /\ errorText' = ErrorLoadingSkills)
      /\ catalogFetch = "done" => catalogFetch' = "done" ]_vars

\* the outcomes of a settled submission that are errors
ErrorSettles ==
  {"network", "bad_body", "render_exception", "callback_exception",
   "server_message", "http_status"}

\* a request leaves the promise chain in this step
SettleStep == Len(inflight') < Len(inflight)

\* C14: a submission that ends in an error (empty selection, server-reported
\* failure, transport or parse failure) leaves the results area empty and the
\* error area showing that error; a visible error and a non-empty results
\* area never coexist; a successful submission leaves the error area hidden.
C14_ErrorAndResultsExclusive ==
  /\ ~(errorShown /\ resultsHTML # <<>>)
  /\ [][ /\ ~(errorShown' /\ resultsHTML' # <<>>)
         /\ (ClickOptimize /\ selectedSkills = <<>>) =>
              (resultsHTML' = <<>> /\ errorShown' /\ errorText' = PleaseSelect)
         /\ (SettleStep /\ lastSettle' \in ErrorSettles) =>
              /\ resultsHTML' = <<>>
              /\ errorShown'
              /\ SubSeq(errorText', 1, Len(OptimizationFailed)) = OptimizationFailed
              /\ lastSettle' = "network" => errorText' = OptimizationFailed \o FailedToFetch
              /\ lastSettle' = "bad_body" => errorText' = OptimizationFailed \o UnexpectedToken
              /\ lastSettle' = "server_message" =>
                   errorText' = OptimizationFailed \o InfeasibleTarget
         /\ (SettleStep /\ lastSettle' = "rendered") =>
              (~errorShown' /\ resultsHTML' # <<>>) ]_vars

\* a report is shown after an earlier submission failed in transport: the
\* error text is still in the hidden error area
C14_ErrorHiddenBySuccessWitness ==
  /\ lastSettle = "rendered"
  /\ resultsHTML # <<>>
  /\ ~errorShown
  /\ errorText = OptimizationFailed \o FailedToFetch

\* a report could not be rendered: the error is shown over an empty results area
C14_RenderFailureWitness ==
  /\ lastSettle = "render_exception"
  /\ errorShown
  /\ resultsHTML = <<>>

----------------------------------------------------------------------------
(* Request payload, dropdown visibility and the selected list: claims. *)

\* C15: a submit click accepted with a non-empty selection S issues exactly one
\* request, whose body is { skills: S }; no later step changes the body of an
\* outstanding request, an add or a remove least of all; and a request is
\* issued by a click only, never by a settling request.
C15_OneRequestPerClickWithSnapshot ==
  [][ /\ (ClickOptimize /\ selectedSkills # <<>>) =>
           /\ Len(inflight') = Len(inflight) + 1
           /\ inflight'[Len(inflight')].body = [skills |-> selectedSkills]
           /\ inflight'[Len(inflight')].phase = "sent"
      /\ Len(inflight') > Len(inflight) => (ClickOptimize /\ selectedSkills # <<>>)
      /\ Len(inflight') >= Len(inflight) =>
           \A i \in 1..Len(inflight) : inflight'[i].body = inflight[i].body
      /\ selectedSkills' # selectedSkills => inflight' = inflight ]_vars

\* the selection was changed while the request was outstanding: the request
\* still carries the two skills selected at the click, the selection holds one
C15_ChangedWhileOutstandingWitness ==
  /\ Len(inflight) = 1
  /\ Len(inflight[1].body.skills) = 2
  /\ Len(selectedSkills) = 1
  /\ lastCall.op = "remove"

\* C16 as stated: the panel is shown after every change of the search input
\* and after a match is chosen from it, and hidden after a click outside the
\* input and the panel.
C16_ShownAfterPick ==
  [][ /\ \A text \in SessionTexts : InputSearch(text) => dropdownShown'
      /\ \A i \in 1..Len(dropdownItems) : PickEntry(i) => dropdownShown'
      /\ ClickOutside => ~dropdownShown' ]_vars

\* C16: the panel is shown after every change of the search input, the change
\* to the empty string included; it is hidden after a match is chosen from it,
\* and hidden after a click outside the input and the panel (on the page, on
\* an X button or on the submit control).
C16_ShownOnInputHiddenOnPick ==
  [][ /\ \A text \in SessionTexts : InputSearch(text) => dropdownShown'
      /\ \A i \in 1..Len(dropdownItems) :
           PickEntry(i) => (~dropdownShown' /\ searchValue' = <<>>)
      /\ ClickOutside => ~dropdownShown'
      /\ (\E i \in 1..Len(selectedSkillsList) : ClickRemove(i)) => ~dropdownShown'
      /\ ClickOptimize => ~dropdownShown' ]_vars

\* the search input was emptied and the panel lists the whole catalog
C16_ShownOnEmptyTextWitness ==
  /\ dropdownShown
  /\ searchValue = <<>>
  /\ Len(allSkillsData) > 0
  /\ dropdownItems = allSkillsData

\* C17: the rendered list has exactly one item per entry of the selection, in
\* the order of the entries, showing the name and the stored level; the X
\* button of an item removes that name and no other; this holds after every
\* addSkill and removeSkill call, those that leave the selection as it was
\* included.
C17_ListMirrorsSelection ==
  /\ Len(selectedSkillsList) = Len(selectedSkills)
  /\ \A i, j \in 1..Len(selectedSkills) :
       selectedSkills[i].key = selectedSkills[j].key => i = j
  /\ \A i \in 1..Len(selectedSkills) :
       /\ selectedSkillsList[i].text =
            selectedSkills[i].key \o <<32>> \o NumberToString(selectedSkills[i].value)
       /\ selectedSkillsList[i].removes = selectedSkills[i].key

\* two entries are listed after an addSkill call that did not change the
\* selection (its level is below the stored one)
C17_UnchangedAddWitness ==
  /\ Len(selectedSkillsList) = 2
  /\ lastCall.op = "add"
  /\ lastCall.level < Get(selectedSkills, lastCall.name)
  /\ selectedSkillsList[1].removes # selectedSkillsList[2].removes


\* a pick was made from the panel filtered by "k 2": the panel is hidden, the
\* input is empty and the panel still holds the filtered entries
C16_HiddenAfterPickWitness ==
  /\ ~dropdownShown
  /\ lastCall.op = "add"
  /\ searchValue = <<>>
  /\ Len(dropdownItems) > 0
  /\ dropdownItems # allSkillsData

----------------------------------------------------------------------------
(* Frame of the error outcomes, origin of the selection, order of the       *)
(* responses: claims.                                                       *)

\* an error is surfaced in this step
ErrorSurfaced == errorShown' /\ (~errorShown \/ errorText' # errorText)

\* C18: a step that surfaces an error (catalog-load error, empty-selection
\* error, server-reported or transport failure) leaves the selection and the
\* catalog as they were, and once the failing action has settled the submit
\* control is enabled.
C18_ErrorsChangeNoData ==
  [][ ErrorSurfaced =>
        /\ selectedSkills' = selectedSkills
        /\ allSkillsData' = allSkillsData
        /\ inflight' = <<>> => ~buttonDisabled' ]_vars

\* the part of C18 that does not involve the catalog callback: the error
\* outcomes of a submission change neither the selection nor the catalog and
\* leave the submit control enabled
C18_SubmissionErrorsChangeNoData ==
  [][ (ErrorSurfaced /\ catalogFetch' = catalogFetch) =>
        /\ selectedSkills' = selectedSkills
        /\ allSkillsData' = allSkillsData
        /\ inflight' = <<>> => ~buttonDisabled' ]_vars

\* the catalog load ended in the success callback running to its end
LoadSucceeded == catalogFetch = "done" /\ ~LoadFailed

\* C19: every entry of the selection has the name of a catalog entry and a
\* level in 1..max_level of it; the selection is empty, and no optimization
\* request has been issued, unless the catalog load succeeded.
C19_SelectionOriginatesFromLoadedCatalog ==
  /\ \A i \in 1..Len(selectedSkills) :
       \E k \in 1..Len(allSkillsData) :
          /\ allSkillsData[k].name = selectedSkills[i].key
          /\ selectedSkills[i].value >= 1
          /\ selectedSkills[i].value <= allSkillsData[k].maxLevel
  /\ ~LoadSucceeded =>
       (selectedSkills = <<>> /\ inflight = <<>> /\ lastSettle = "none")

\* the part of C19 the code keeps: every entry of the selection, and of the
\* body of an issued request, has the name of a catalog entry and a level in
\* 1..max_level of it
C19_EntriesOriginateFromCatalog ==
  /\ \A i \in 1..Len(selectedSkills) :
       \E k \in 1..Len(allSkillsData) :
          /\ allSkillsData[k].name = selectedSkills[i].key
          /\ selectedSkills[i].value >= 1
          /\ selectedSkills[i].value <= allSkillsData[k].maxLevel
  /\ \A r \in 1..Len(inflight) : \A i \in 1..Len(inflight[r].body.skills) :
       \E k \in 1..Len(allSkillsData) :
          /\ allSkillsData[k].name = inflight[r].body.skills[i].key
          /\ inflight[r].body.skills[i].value \in 1..allSkillsData[k].maxLevel

\* C20: a report enters the results area only as the response to the most
\* recently issued request, and while a report is shown no request issued
\* after that one is outstanding or has settled: the click that issues a
\* request empties the area, so the response to an earlier request never
\* overwrites or follows the outcome of a later one.
C20_ShownBuildIsLatestResponse ==
  /\ [](resultsHTML # <<>> => inflight = <<>>)
  /\ [][ /\ (resultsHTML' # <<>> /\ resultsHTML' # resultsHTML) =>
              /\ Len(inflight) >= 1
              /\ \E k \in 1..Len(SessionBodies) : OptimizeBody(Len(inflight), k)
              /\ lastSettle' = "rendered"
         /\ Len(inflight') > Len(inflight) => resultsHTML' = <<>>
         /\ (SettleStep /\ resultsHTML' = resultsHTML) => resultsHTML = <<>> ]_vars

\* a report is shown as the response to a second request, the first one having
\* been answered with the server's "infeasible target"
C20_SecondResponseShownWitness ==
  /\ resultsHTML # <<>>
  /\ lastSettle = "rendered"
  /\ inflight = <<>>
  /\ errorText = OptimizationFailed \o InfeasibleTarget

====
